---- MODULE Spec2Model ----
(***************************************************************************)
(* Model of pathte: classification of clipboard text as a Windows, Unix   *)
(* or WSL path (src/src/path.rs), the conversions between the three       *)
(* formats, and the cyclic PathSelection built from them                   *)
(* (src/src/path_selection.rs).                                            *)
(*                                                                         *)
(* A text is a sequence of characters; a character is a one-character      *)
(* string, except NUL (U+0000) and LF (U+000A), written "NUL" and "LF".    *)
(***************************************************************************)
EXTENDS Integers, Sequences, FiniteSets, TLC

\* raw_path:       the text handed to PathSelection::new (raw_path argument)
\* path_selection: the Option<PathSelection> that new returned, None before
\* last_op:        history: the last operation that ran
\*                 ("none", "new", "next", "previous")
\* prev_current:   history: the value of current before the last next/previous
\* values:         the path values built from raw_path by a constructor and
\*                 then by conversions, each with the format asked for
VARIABLES raw_path, path_selection, last_op, prev_current, values

\* State of the keyboard hook (src/src/keyboard_hook.rs) and of what it
\* calls (src/src/clipboard.rs, src/src/win_api.rs); path_selection is then
\* the content of the PATH_SELECTION mutex.
\* clipboard:   the text on the system clipboard
\* keys:        which of left Control, right Control and Shift are down
\*              (what GetAsyncKeyState reports)
\* gui_channel: the messages sent on the channel to the display, in order
\* paste_calls: the texts handed to clipboard::paste_path, in order
\* restores:    the original texts held by the restore threads that
\*              paste_path spawned and that have not yet run
\* synthetic:   the number of injected Ctrl+V strokes the focused
\*              application has not yet acted on
\* pasted:      the texts the focused application pasted on injected strokes
\* hook_ret:    what the last call of keyboard_hook_proc returned
\* panic:       whether a panic happened in keyboard_hook_proc, its cause and
\*              what became of the process
\* n_events:    the number of key events delivered to the hook
VARIABLES clipboard, keys, gui_channel, paste_calls, restores, synthetic,
          pasted, hook_ret, panic, n_events

\* event is the key event of the last call of keyboard_hook_proc (w_param
\* and kb_struct.vkCode). gesture is a history of the paste gesture under
\* way: the clipboard text at its first paste key-down, the paste key-downs
\* that followed with Shift up (k) and with Shift down (j), and whether
\* anything but the hook and its restore threads has touched the clipboard
\* or a restoring write has failed (disturbed).
VARIABLES event, gesture

\* paste_result is what clipboard::paste_path returned in the last call of
\* keyboard_hook_proc ("none" when the call did not reach it); the hook
\* drops it.
VARIABLES paste_result

hookvars == <<clipboard, keys, gui_channel, paste_calls, restores, synthetic,
              pasted, hook_ret, panic, n_events, event, gesture,
              paste_result>>

\* State of the earlier variant of the program kept in src/src/main.rs: the
\* hook's SELECTION_WINDOW_VISIBLE flag, the fields window_open and
\* selected_path_type of MyApp, and the history of the signals sent on and
\* received from the BACKEND_TO_UI channel (gui_channel holds the signals
\* in flight).
VARIABLES SELECTION_WINDOW_VISIBLE, window_open, selected_path_type,
          signals_sent, signals_consumed

mainvars == <<SELECTION_WINDOW_VISIBLE, window_open, selected_path_type,
              signals_sent, signals_consumed>>

vars == <<raw_path, path_selection, last_op, prev_current, values, hookvars,
          mainvars>>

\* main.rs is not running: the state its variables keep in the other
\* specifications (MyApp is built with window_open: false and
\* selected_path_type: PathType::Unix).
MainIdle ==
    /\ SELECTION_WINDOW_VISIBLE = FALSE
    /\ window_open = FALSE
    /\ selected_path_type = "Unix"
    /\ signals_sent = <<>>
    /\ signals_consumed = <<>>

NoKeys == [lctrl |-> FALSE, rctrl |-> FALSE, shift |-> FALSE]
NoPanic == [outcome |-> "none", cause |-> "none"]
NoEvent == [w_param |-> "none", vk |-> "none"]
NoGesture == [text |-> <<>>, k |-> 0, j |-> 0, disturbed |-> FALSE]

\* The hook is not installed: the state its variables keep in the
\* specifications that use PathSelection and the conversions alone.
HookIdle ==
    /\ clipboard = <<>>
    /\ keys = NoKeys
    /\ gui_channel = <<>>
    /\ paste_calls = <<>>
    /\ restores = <<>>
    /\ synthetic = 0
    /\ pasted = <<>>
    /\ hook_ret = "none"
    /\ panic = NoPanic
    /\ n_events = 0
    /\ event = NoEvent
    /\ gesture = NoGesture
    /\ paste_result = "none"

(***************************************************************************)
(* Bounds of the model: a raw text is the concatenation of at most         *)
(* MaxFrags fragments.                                                     *)
(***************************************************************************)
MaxFrags == 4

Fragments ==
    { <<"/">>, <<"\\">>, <<"c">>, <<"D">>, <<":">>,
      <<"m", "n", "t">>, <<"/", "m", "n", "t", "/">>, <<":", "\\">>,
      <<"NUL">>, <<"LF">>, <<"h", "t", "t", "p", ":">> }

RECURSIVE Texts(_)
Texts(n) ==
    IF n = 0 THEN { <<>> }
    ELSE LET shorter == Texts(n - 1)
         IN  shorter \cup { t \o f : t \in shorter, f \in Fragments }

RawTexts == Texts(MaxFrags)

(***************************************************************************)
(* Characters and the string functions of the Rust standard library that  *)
(* the code calls.                                                         *)
(***************************************************************************)
LowerLetters ==
    <<"a", "b", "c", "d", "e", "f", "g", "h", "i", "j", "k", "l", "m",
      "n", "o", "p", "q", "r", "s", "t", "u", "v", "w", "x", "y", "z">>

UpperLetters ==
    <<"A", "B", "C", "D", "E", "F", "G", "H", "I", "J", "K", "L", "M",
      "N", "O", "P", "Q", "R", "S", "T", "U", "V", "W", "X", "Y", "Z">>

IsLower(ch) == \E i \in DOMAIN LowerLetters : LowerLetters[i] = ch
IsUpper(ch) == \E i \in DOMAIN UpperLetters : UpperLetters[i] = ch

\* The class [A-Za-z] of the regular expressions.
IsLetter(ch) == IsLower(ch) \/ IsUpper(ch)

\* str::to_lowercase on the one captured drive letter.
to_lowercase(ch) ==
    IF IsUpper(ch)
    THEN LowerLetters[CHOOSE i \in DOMAIN UpperLetters : UpperLetters[i] = ch]
    ELSE ch

\* str::to_uppercase on the one captured drive letter.
to_uppercase(ch) ==
    IF IsLower(ch)
    THEN UpperLetters[CHOOSE i \in DOMAIN LowerLetters : LowerLetters[i] = ch]
    ELSE ch

\* The class [\x00-\x1F<>:"|?*/] that the Windows pattern excludes.
WindowsForbidden == { "NUL", "LF", "<", ">", ":", "\"", "|", "?", "*", "/" }

\* str::contains with a one-character pattern.
contains(s, ch) == \E i \in DOMAIN s : s[i] = ch

\* str::contains("//").
contains_double_slash(s) ==
    \E i \in 1..(Len(s) - 1) : s[i] = "/" /\ s[i + 1] = "/"

\* str::replace(from, to) with one-character pattern and replacement.
replace(s, from, to) == [i \in DOMAIN s |-> IF s[i] = from THEN to ELSE s[i]]

\* The text after the first n characters.
Drop(s, n) == SubSeq(s, n + 1, Len(s))

starts_with(s, p) == Len(s) >= Len(p) /\ SubSeq(s, 1, Len(p)) = p

ends_with(s, p) ==
    Len(s) >= Len(p) /\ SubSeq(s, Len(s) - Len(p) + 1, Len(s)) = p

(***************************************************************************)
(* The regular expressions of path.rs, as Regex::is_match decides them.    *)
(***************************************************************************)
\* ^/mnt/(([A-Za-z]/?$)|([A-Za-z]/[^\x00]*))$
WSL_REGEX(s) ==
    /\ starts_with(s, <<"/", "m", "n", "t", "/">>)
    /\ LET r == Drop(s, 5)
       IN  /\ Len(r) >= 1
           /\ IsLetter(r[1])
           /\ \/ Len(r) = 1
              \/ /\ r[2] = "/"
                 /\ ~contains(Drop(r, 2), "NUL")

\* ^([a-zA-Z]:\\?$)|([^\x00-\x1F<>:"|?*/]*\\[^\x00-\x1F<>:"|?*/]*$)
\* The alternation binds weaker than ^, so only the first branch is
\* anchored at the start of the text; the second is anchored at its end.
WINDOWS_REGEX(s) ==
    \/ /\ Len(s) \in {2, 3}
       /\ IsLetter(s[1])
       /\ s[2] = ":"
       /\ Len(s) = 3 => s[3] = "\\"
    \/ \E i \in DOMAIN s :
          /\ s[i] = "\\"
          /\ \A j \in (i + 1)..Len(s) : s[j] \notin WindowsForbidden

\* ^[^\x00]*/[^\x00]*$
UNIX_REGEX(s) == contains(s, "/") /\ ~contains(s, "NUL")

\* (http|https|ftp|sftp|file):$
\* Defined in path.rs and used by none of the validity checks.
PROTOCOL_REGEX(s) ==
    \/ ends_with(s, <<"h", "t", "t", "p", ":">>)
    \/ ends_with(s, <<"h", "t", "t", "p", "s", ":">>)
    \/ ends_with(s, <<"f", "t", "p", ":">>)
    \/ ends_with(s, <<"s", "f", "t", "p", ":">>)
    \/ ends_with(s, <<"f", "i", "l", "e", ":">>)

(***************************************************************************)
(* Validity checks and constructors.                                       *)
(***************************************************************************)
is_windows_path(s) ==
    IF contains(s, "LF") THEN FALSE ELSE WINDOWS_REGEX(s)

\* A Unix check without the test for "//".
is_unix_path_allow_double_slash(s) ==
    IF contains(s, "LF") THEN FALSE ELSE UNIX_REGEX(s)

is_unix_path(s) ==
    IF contains_double_slash(s) \/ contains(s, "LF") THEN FALSE
    ELSE UNIX_REGEX(s)

is_wsl_path(s) ==
    IF contains_double_slash(s) \/ contains(s, "LF") THEN FALSE
    ELSE WSL_REGEX(s)

\* PathType
Windows == "Windows"
Unix == "Unix"
Wsl == "Wsl"
PathType == {Windows, Unix, Wsl}

\* Result<_, String>: the error text is not modelled.
Err == [ok |-> FALSE, type |-> "", path |-> <<>>]
Ok(type, path) == [ok |-> TRUE, type |-> type, path |-> path]

WindowsPath_new(s) == IF is_windows_path(s) THEN Ok(Windows, s) ELSE Err
UnixPath_new(s) == IF is_unix_path(s) THEN Ok(Unix, s) ELSE Err
WslPath_new(s) == IF is_wsl_path(s) THEN Ok(Wsl, s) ELSE Err

(***************************************************************************)
(* The nine conversions. A path p is a record [type, path].                *)
(***************************************************************************)
\* Regex ^([A-Za-z]): replaced by /mnt/<lowercased letter>.
replace_drive_with_mnt(s) ==
    IF Len(s) >= 2 /\ IsLetter(s[1]) /\ s[2] = ":"
    THEN <<"/", "m", "n", "t", "/", to_lowercase(s[1])>> \o Drop(s, 2)
    ELSE s

\* A replacement that forgets the colon after the drive letter.
replace_mnt_with_drive_no_colon(s) ==
    IF Len(s) >= 6 /\ starts_with(s, <<"/", "m", "n", "t", "/">>) /\ IsLetter(s[6])
    THEN <<to_uppercase(s[6])>> \o Drop(s, 6)
    ELSE s

\* Regex ^/mnt/([A-Za-z]) replaced by <UPPERCASED letter>:
replace_mnt_with_drive(s) ==
    IF Len(s) >= 6 /\ starts_with(s, <<"/", "m", "n", "t", "/">>) /\ IsLetter(s[6])
    THEN <<to_uppercase(s[6]), ":">> \o Drop(s, 6)
    ELSE s

\* The text each conversion hands to the constructor of its target format.
windows_to_unix_text(s) == replace(s, "\\", "/")
windows_to_wsl_text(s) == replace(replace_drive_with_mnt(s), "\\", "/")

\* A rewriting that puts a drive in front of a rooted Unix path.
unix_to_windows_text_with_drive(s) ==
    IF Len(s) >= 1 /\ s[1] = "/"
    THEN <<"C", ":">> \o replace(s, "/", "\\")
    ELSE replace(s, "/", "\\")

unix_to_windows_text(s) == replace(s, "/", "\\")

\* A rewriting that turns a leading <letter>: into /mnt/<letter>.
unix_to_wsl_text_with_mnt(s) == replace_drive_with_mnt(s)

unix_to_wsl_text(s) == s
\* A rewriting that leaves the forward slashes in place.
wsl_to_windows_text_keep_slashes(s) == replace_mnt_with_drive(s)

wsl_to_windows_text(s) == replace(replace_mnt_with_drive(s), "/", "\\")

\* A rewriting that strips the /mnt/<letter> prefix.
wsl_to_unix_text_strip_prefix(s) == Drop(s, 6)

wsl_to_unix_text(s) == s

WindowsPath_to_windows(p) == Ok(Windows, p.path)

\* A to_unix that trusts the rewritten text instead of validating it.
WindowsPath_to_unix_unchecked(p) == Ok(Unix, windows_to_unix_text(p.path))

WindowsPath_to_unix(p) == UnixPath_new(windows_to_unix_text(p.path))

\* A to_wsl that keeps the case of the drive letter.
WindowsPath_to_wsl_keep_case(p) ==
    WslPath_new(replace(
        IF Len(p.path) >= 2 /\ IsLetter(p.path[1]) /\ p.path[2] = ":"
        THEN <<"/", "m", "n", "t", "/", p.path[1]>> \o Drop(p.path, 2)
        ELSE p.path, "\\", "/"))

WindowsPath_to_wsl(p) == WslPath_new(windows_to_wsl_text(p.path))

UnixPath_to_windows(p) == WindowsPath_new(unix_to_windows_text(p.path))
UnixPath_to_unix(p) == Ok(Unix, p.path)
UnixPath_to_wsl(p) == WslPath_new(unix_to_wsl_text(p.path))

WslPath_to_windows(p) == WindowsPath_new(wsl_to_windows_text(p.path))
WslPath_to_unix(p) == UnixPath_new(wsl_to_unix_text(p.path))
WslPath_to_wsl(p) == Ok(Wsl, p.path)

\* Dynamic dispatch of the Path trait.
to_windows(p) ==
    CASE p.type = Windows -> WindowsPath_to_windows(p)
      [] p.type = Unix -> UnixPath_to_windows(p)
      [] p.type = Wsl -> WslPath_to_windows(p)

to_unix(p) ==
    CASE p.type = Windows -> WindowsPath_to_unix(p)
      [] p.type = Unix -> UnixPath_to_unix(p)
      [] p.type = Wsl -> WslPath_to_unix(p)

to_wsl(p) ==
    CASE p.type = Windows -> WindowsPath_to_wsl(p)
      [] p.type = Unix -> UnixPath_to_wsl(p)
      [] p.type = Wsl -> WslPath_to_wsl(p)

(***************************************************************************)
(* PathSelection. current is a 0-based index as in the code;               *)
(* options[current + 1] is the code's options[current].                    *)
(***************************************************************************)
None == [some |-> FALSE, options |-> <<>>, current |-> 0]
Some(options, current) == [some |-> TRUE, options |-> options, current |-> current]

\* Option<Box<dyn Path>> is modelled by a Result record: Err stands for None.
get_initial_path(s) ==
    IF WindowsPath_new(s).ok THEN WindowsPath_new(s)
    ELSE IF UnixPath_new(s).ok THEN UnixPath_new(s)
    ELSE IF WslPath_new(s).ok THEN WslPath_new(s)
    ELSE Err

\* .into_iter().filter(|x| x.is_ok()).flatten().collect()
ok_options_of(options) == SelectSeq(options, LAMBDA x : x.ok)

\* Iterator::position: the first 0-based index whose type is t, -1 for None.
position(options, t) ==
    IF \E i \in DOMAIN options : options[i].type = t
    THEN (CHOOSE i \in DOMAIN options :
              /\ options[i].type = t
              /\ \A j \in 1..(i - 1) : options[j].type # t) - 1
    ELSE -1

\* Option::unwrap_or
unwrap_or(x, default) == IF x = -1 THEN default ELSE x

\* A new that always starts on the first option.
PathSelection_new_first_option(s) ==
    LET path == get_initial_path(s)
    IN  IF ~path.ok THEN None
        ELSE LET options == <<to_windows(path), to_unix(path), to_wsl(path)>>
                 ok_options == ok_options_of(options)
             IN  IF Len(ok_options) = 1 THEN None
                 ELSE Some(ok_options, 0)

\* A new without the early return for a single option.
PathSelection_new_keep_single(s) ==
    LET path == get_initial_path(s)
    IN  IF ~path.ok THEN None
        ELSE LET options == <<to_windows(path), to_unix(path), to_wsl(path)>>
                 ok_options == ok_options_of(options)
             IN  Some(ok_options,
                      unwrap_or(position(ok_options, path.type), 0))

PathSelection_new(s) ==
    LET path == get_initial_path(s)
    IN  IF ~path.ok THEN None
        ELSE LET options == <<to_windows(path), to_unix(path), to_wsl(path)>>
                 ok_options == ok_options_of(options)
             IN  IF Len(ok_options) = 1 THEN None
                 ELSE Some(ok_options,
                           unwrap_or(position(ok_options, path.type), 0))

\* A next without the wrap-around.
PathSelection_next_no_wrap(sel) == [sel EXCEPT !.current = sel.current + 1]

PathSelection_next(sel) ==
    [sel EXCEPT !.current = (sel.current + 1) % Len(sel.options)]

\* A previous that steps forward, as next does.
PathSelection_previous_forward(sel) ==
    [sel EXCEPT !.current = (sel.current + 1) % Len(sel.options)]

PathSelection_previous(sel) ==
    [sel EXCEPT !.current =
        (sel.current + Len(sel.options) - 1) % Len(sel.options)]

get_selected_path_string(sel) == sel.options[sel.current + 1].path

(***************************************************************************)
(* The state machine: a text is given, PathSelection::new is called on it, *)
(* and the selection it returns is cycled with next and previous.          *)
(***************************************************************************)
Init ==
    /\ raw_path \in RawTexts
    /\ path_selection = None
    /\ last_op = "none"
    /\ prev_current = 0
    /\ values = <<>>
    /\ HookIdle
    /\ MainIdle

New ==
    /\ last_op = "none"
    /\ path_selection' = PathSelection_new(raw_path)
    /\ last_op' = "new"
    /\ prev_current' = 0
    /\ UNCHANGED <<raw_path, values, hookvars, mainvars>>

Next_ ==
    /\ path_selection.some
    /\ path_selection' = PathSelection_next(path_selection)
    /\ last_op' = "next"
    /\ prev_current' = path_selection.current
    /\ UNCHANGED <<raw_path, values, hookvars, mainvars>>

Previous ==
    /\ path_selection.some
    /\ path_selection' = PathSelection_previous(path_selection)
    /\ last_op' = "previous"
    /\ prev_current' = path_selection.current
    /\ UNCHANGED <<raw_path, values, hookvars, mainvars>>

Next == New \/ Next_ \/ Previous

Spec == Init /\ [][Next]_vars

(***************************************************************************)
(* Vocabulary of the properties.                                           *)
(***************************************************************************)
\* The place of a format in the fixed order Windows, Unix, Wsl.
Rank(t) == CASE t = Windows -> 1 [] t = Unix -> 2 [] t = Wsl -> 3

\* The validity check of format t.
Valid(t, s) ==
    CASE t = Windows -> is_windows_path(s)
      [] t = Unix -> is_unix_path(s)
      [] t = Wsl -> is_wsl_path(s)

\* The conversion of path p to format t.
Convert(p, t) ==
    CASE t = Windows -> to_windows(p)
      [] t = Unix -> to_unix(p)
      [] t = Wsl -> to_wsl(p)

\* The text that the conversion of p to format t validates.
Rewritten(p, t) ==
    CASE p.type = t -> p.path
      [] p.type = Windows /\ t = Unix -> windows_to_unix_text(p.path)
      [] p.type = Windows /\ t = Wsl -> windows_to_wsl_text(p.path)
      [] p.type = Unix /\ t = Windows -> unix_to_windows_text(p.path)
      [] p.type = Unix /\ t = Wsl -> unix_to_wsl_text(p.path)
      [] p.type = Wsl /\ t = Windows -> wsl_to_windows_text(p.path)
      [] p.type = Wsl /\ t = Unix -> wsl_to_unix_text(p.path)

\* The path values the three constructors build from text s.
PathsOf(s) ==
    { r \in {WindowsPath_new(s), UnixPath_new(s), WslPath_new(s)} : r.ok }

Classified == get_initial_path(raw_path)
Created == last_op = "new"
Active == path_selection.some
Options == path_selection.options
Current == path_selection.current
OptionTypes == { Options[i].type : i \in DOMAIN Options }

(***************************************************************************)
(* The conversions as a state machine: a constructor builds a path value   *)
(* from the text, and each further step converts the last value, as long   *)
(* as it is Ok, to one of the three formats. values[i].to is the format    *)
(* asked for at step i and values[i].r the Result returned.                *)
(***************************************************************************)
MaxConversions == 3

\* WindowsPath::new, UnixPath::new or WslPath::new, by format.
Construct(t, s) ==
    CASE t = Windows -> WindowsPath_new(s)
      [] t = Unix -> UnixPath_new(s)
      [] t = Wsl -> WslPath_new(s)

ConvInit ==
    /\ raw_path \in RawTexts
    /\ path_selection = None
    /\ last_op = "none"
    /\ prev_current = 0
    /\ values = <<>>
    /\ HookIdle
    /\ MainIdle

ConvNew ==
    /\ values = <<>>
    /\ \E t \in PathType :
          values' = <<[to |-> t, r |-> Construct(t, raw_path)]>>
    /\ UNCHANGED <<raw_path, path_selection, last_op, prev_current, hookvars,
                   mainvars>>

ConvTo ==
    /\ values # <<>>
    /\ Len(values) <= MaxConversions
    /\ values[Len(values)].r.ok
    /\ \E t \in PathType :
          values' = Append(values,
                           [to |-> t, r |-> Convert(values[Len(values)].r, t)])
    /\ UNCHANGED <<raw_path, path_selection, last_op, prev_current, hookvars,
                   mainvars>>

ConvNext == ConvNew \/ ConvTo

ConvSpec == ConvInit /\ [][ConvNext]_vars

\* The formats asked for so far, and the step-i result.
Chain == [i \in DOMAIN values |-> values[i].to]
ChainStarts(c) == Len(values) >= Len(c) /\ SubSeq(Chain, 1, Len(c)) = c

(***************************************************************************)
(* The keyboard hook. keyboard_hook_proc runs on the hook thread, once per *)
(* key event and to its end, holding the PATH_SELECTION lock: each call is *)
(* one step. The restore threads and the focused application run beside    *)
(* it.                                                                      *)
(***************************************************************************)
MaxEvents == 7

\* The texts the user copies to the clipboard: a Windows path, a Unix path
\* and a text that is no path.
ClipTexts == { <<"c", ":", "\\">>, <<"/">>, <<"c">> }

VK_V == "VK_V"
VK_LCONTROL == "VK_LCONTROL"
VK_RCONTROL == "VK_RCONTROL"
VK_SHIFT == "VK_SHIFT"
VKeys == {VK_V, VK_LCONTROL, VK_RCONTROL, VK_SHIFT}

\* The GUI_SENDER mutex holds the sender of the display channel. The crate
\* root that fills it is not part of the sources; the display channel of
\* the specification (section 5) exists and delivers every message.
GUI_SENDER == TRUE

\* PathSelection::get_info
Label(t) ==
    CASE t = Windows -> "Win"
      [] t = Unix -> "Unix"
      [] t = Wsl -> "WSL"

PathSelection_get_info(sel) ==
    [options |-> [i \in DOMAIN sel.options |->
                     [label |-> Label(sel.options[i].type),
                      path |-> sel.options[i].path]],
     selected |-> sel.current]

\* path_selection.as_ref().map(|ps| ps.get_info())
NoneMessage == [some |-> FALSE, options |-> <<>>, selected |-> 0]

message(sel) ==
    IF sel.some
    THEN [some |-> TRUE,
          options |-> PathSelection_get_info(sel).options,
          selected |-> PathSelection_get_info(sel).selected]
    ELSE NoneMessage

\* What one call of keyboard_hook_proc starts from and what it leaves.
HookState ==
    [sel |-> path_selection, chan |-> gui_channel, calls |-> paste_calls,
     clip |-> clipboard, rest |-> restores, syn |-> synthetic,
     ret |-> "none", panic |-> panic, op |-> "forward", pres |-> "none"]

\* return CallNextHookEx(...)
CallNextHookEx(st) == [st EXCEPT !.ret = "forwarded"]

\* return LRESULT(1)
Suppress(st, op) == [st EXCEPT !.ret = "suppressed", !.op = op]

\* A panic inside the extern "system" callback: the process aborts, or the
\* panic unwinds out of the callback and leaves the PATH_SELECTION mutex
\* poisoned.
Panics(st, cause) ==
    { [st EXCEPT !.ret = "panic", !.op = "panic",
                 !.panic = [outcome |-> o, cause |-> cause]] :
        o \in {"aborted", "unwound"} }

\* clipboard::paste_path: what it leaves for each outcome of its clipboard
\* read and write. simulate_paste removes the hook while it injects its
\* Ctrl+V, so the injected keys are not events of the hook. A failed
\* set_clipboard_text has written nothing.
\* A paste_path that goes on after a failed set_clipboard_text.
paste_path_ignore_write_error(st, path) ==
    { [st EXCEPT !.pres = "read_failed"],
      [st EXCEPT !.pres = "write_failed",
                 !.syn = st.syn + 1,
                 !.rest = Append(st.rest, st.clip)],
      [st EXCEPT !.pres = "ok",
                 !.clip = path,
                 !.syn = st.syn + 1,
                 !.rest = Append(st.rest, st.clip)] }

paste_path(st, path) ==
    { [st EXCEPT !.pres = "read_failed"],         \* get_clipboard_text fails
      [st EXCEPT !.pres = "write_failed"],        \* set_clipboard_text fails
      [st EXCEPT !.pres = "ok",
                 !.clip = path,                   \* set_clipboard_text
                 !.syn = st.syn + 1,              \* simulate_paste
                 !.rest = Append(st.rest, st.clip)] }   \* thread::spawn

\* WM_KEYDOWN, the branch of an existing selection.
keydown_cycle(st) ==
    IF ~GUI_SENDER THEN { Suppress(st, "forward") }
    ELSE IF ~st.sel.some THEN Panics(st, "unwrap_none")
    ELSE LET sel == IF keys.shift THEN PathSelection_previous(st.sel)
                    ELSE PathSelection_next(st.sel)
         IN  { Suppress([st EXCEPT !.sel = sel,
                                   !.chan = Append(st.chan, message(sel))],
                        IF keys.shift THEN "previous" ELSE "next") }

\* A creation branch that swallows the key-down whatever comes of it.
keydown_create_swallow(st) ==
    { Suppress(st, "forward") }
    \cup
    LET sel == PathSelection_new(st.clip)
        created == [st EXCEPT !.sel = sel]
    IN  IF sel.some /\ GUI_SENDER
        THEN LET sent == [created EXCEPT
                             !.chan = Append(st.chan, message(sel))]
             IN  { Suppress(sent, "new") }
                 \cup Panics([sent EXCEPT !.op = "new"],
                             "move_window_to_cursor")
        ELSE { Suppress(created, IF sel.some THEN "new" ELSE "forward") }

\* WM_KEYDOWN, the branch that creates the selection from the clipboard.
keydown_create(st) ==
    { CallNextHookEx(st) }                        \* get_clipboard_text fails
    \cup
    LET sel == PathSelection_new(st.clip)
        created == [st EXCEPT !.sel = sel]
    IN  IF sel.some /\ GUI_SENDER
        THEN LET sent == [created EXCEPT
                             !.chan = Append(st.chan, message(sel))]
             IN  { Suppress(sent, "new") }        \* no window, or moved
                 \cup Panics([sent EXCEPT !.op = "new"],
                             "move_window_to_cursor")  \* GetCursorPos fails
        ELSE { CallNextHookEx([created EXCEPT
                   !.op = IF sel.some THEN "new" ELSE "forward"]) }

\* A WM_KEYDOWN that cycles without publishing the new state.
keyboard_hook_proc_keydown_silent(st, vk) ==
    IF vk = VK_V /\ (keys.lctrl \/ keys.rctrl)
    THEN IF st.sel.some
         THEN { [x EXCEPT !.chan = st.chan] : x \in keydown_cycle(st) }
         ELSE keydown_create(st)
    ELSE { CallNextHookEx(st) }

\* A WM_KEYDOWN that reads the clipboard again on every paste key-down.
keyboard_hook_proc_keydown_reread(st, vk) ==
    IF vk = VK_V /\ (keys.lctrl \/ keys.rctrl)
    THEN keydown_create(st)
    ELSE { CallNextHookEx(st) }

keyboard_hook_proc_keydown(st, vk) ==
    IF vk = VK_V /\ (keys.lctrl \/ keys.rctrl)
    THEN IF st.sel.some
         THEN keydown_cycle(st)
         ELSE keydown_create(st)
    ELSE { CallNextHookEx(st) }

\* WM_KEYUP of a Control key, the branch that pastes and dismisses.
keyup_take(st) ==
    IF ~st.sel.some THEN Panics(st, "unwrap_none")
    ELSE LET sent == IF GUI_SENDER
                     THEN [st EXCEPT !.chan = Append(st.chan, NoneMessage)]
                     ELSE st
             path == get_selected_path_string(st.sel)
             taken == [sent EXCEPT !.sel = None,
                                   !.calls = Append(st.calls, path)]
         IN  { Suppress(x, "take") : x \in paste_path(taken, path) }

\* A WM_KEYUP that takes the selection without checking that there is one.
keyboard_hook_proc_keyup_unchecked(st, vk) ==
    IF vk = VK_LCONTROL \/ vk = VK_RCONTROL
    THEN keyup_take(st)
    ELSE { CallNextHookEx(st) }

keyboard_hook_proc_keyup(st, vk) ==
    IF (vk = VK_LCONTROL \/ vk = VK_RCONTROL) /\ st.sel.some
    THEN keyup_take(st)
    ELSE { CallNextHookEx(st) }

\* keyboard_hook_proc: PATH_SELECTION.lock().unwrap() panics on a poisoned
\* mutex before anything else is done.
keyboard_hook_proc(st, w_param, vk) ==
    IF st.panic.outcome = "unwound" THEN Panics(st, st.panic.cause)
    ELSE IF w_param = "WM_KEYDOWN" THEN keyboard_hook_proc_keydown(st, vk)
    ELSE keyboard_hook_proc_keyup(st, vk)

\* The key state after the event.
KeysAfter(w_param, vk) ==
    LET down == w_param = "WM_KEYDOWN"
    IN  CASE vk = VK_LCONTROL -> [keys EXCEPT !.lctrl = down]
          [] vk = VK_RCONTROL -> [keys EXCEPT !.rctrl = down]
          [] vk = VK_SHIFT -> [keys EXCEPT !.shift = down]
          [] vk = VK_V -> keys

IsDown(vk) ==
    CASE vk = VK_LCONTROL -> keys.lctrl
      [] vk = VK_RCONTROL -> keys.rctrl
      [] vk = VK_SHIFT -> keys.shift
      [] vk = VK_V -> TRUE

Running == panic.outcome # "aborted"

HookInit ==
    /\ raw_path = <<>>
    /\ path_selection = None
    /\ last_op = "none"
    /\ prev_current = 0
    /\ values = <<>>
    /\ clipboard \in ClipTexts
    /\ keys = NoKeys
    /\ gui_channel = <<>>
    /\ paste_calls = <<>>
    /\ restores = <<>>
    /\ synthetic = 0
    /\ pasted = <<>>
    /\ hook_ret = "none"
    /\ panic = NoPanic
    /\ n_events = 0
    /\ event = NoEvent
    /\ gesture = NoGesture
    /\ paste_result = "none"
    /\ MainIdle

\* One call of keyboard_hook_proc with outcome o.
Handle(o) ==
    /\ path_selection' = o.sel
    /\ gui_channel' = o.chan
    /\ paste_calls' = o.calls
    /\ clipboard' = o.clip
    /\ restores' = o.rest
    /\ synthetic' = o.syn
    /\ hook_ret' = o.ret
    /\ panic' = o.panic
    /\ paste_result' = o.pres
    /\ last_op' = o.op
    /\ prev_current' = path_selection.current
    /\ n_events' = n_events + 1
    /\ UNCHANGED <<raw_path, values, pasted, mainvars>>

\* The history of the gesture after a key-down: a paste key-down (V with
\* Control held) starts a gesture when there is no selection, and counts as
\* a press with or without Shift when there is one.
GestureAfterKeyDown(vk) ==
    IF vk = VK_V /\ (keys.lctrl \/ keys.rctrl)
    THEN IF ~path_selection.some
         THEN [gesture EXCEPT !.text = clipboard, !.k = 0, !.j = 0]
         ELSE IF keys.shift
         THEN [gesture EXCEPT !.j = @ + 1]
         ELSE [gesture EXCEPT !.k = @ + 1]
    ELSE gesture

\* A key goes down (or repeats while held) and the hook is called.
KeyDown(vk) ==
    /\ Running
    /\ n_events < MaxEvents
    /\ \E o \in keyboard_hook_proc(HookState, "WM_KEYDOWN", vk) : Handle(o)
    /\ keys' = KeysAfter("WM_KEYDOWN", vk)
    /\ event' = [w_param |-> "WM_KEYDOWN", vk |-> vk]
    /\ gesture' = GestureAfterKeyDown(vk)

\* A key that is down goes up and the hook is called.
KeyUp(vk) ==
    /\ Running
    /\ n_events < MaxEvents
    /\ IsDown(vk)
    /\ \E o \in keyboard_hook_proc(HookState, "WM_KEYUP", vk) : Handle(o)
    /\ keys' = KeysAfter("WM_KEYUP", vk)
    /\ event' = [w_param |-> "WM_KEYUP", vk |-> vk]
    /\ UNCHANGED gesture

\* The user copies another text.
Copy ==
    /\ Running
    /\ \E t \in ClipTexts \ {clipboard} : clipboard' = t
    /\ gesture' = [gesture EXCEPT !.disturbed = TRUE]
    /\ UNCHANGED <<mainvars,
                   raw_path, path_selection, last_op, prev_current, values,
                   keys, gui_channel, paste_calls, restores, synthetic,
                   pasted, hook_ret, panic, n_events, event, paste_result>>

\* A restore thread wakes and writes the original text back; the result of
\* set_clipboard_text is ignored.
RestoreThread ==
    /\ Running
    /\ \E i \in DOMAIN restores :
          /\ \/ /\ clipboard' = restores[i]
                /\ UNCHANGED gesture
             \/ /\ clipboard' = clipboard          \* set_clipboard_text fails
                /\ gesture' = [gesture EXCEPT !.disturbed = TRUE]
          /\ restores' = SubSeq(restores, 1, i - 1)
                             \o SubSeq(restores, i + 1, Len(restores))
    /\ UNCHANGED <<mainvars,
                   raw_path, path_selection, last_op, prev_current, values,
                   keys, gui_channel, paste_calls, synthetic, pasted,
                   hook_ret, panic, n_events, event, paste_result>>

\* The focused application acts on an injected Ctrl+V.
TargetPaste ==
    /\ synthetic > 0
    /\ synthetic' = synthetic - 1
    /\ pasted' = Append(pasted, clipboard)
    /\ UNCHANGED <<mainvars,
                   raw_path, path_selection, last_op, prev_current, values,
                   clipboard, keys, gui_channel, paste_calls, restores,
                   hook_ret, panic, n_events, event, gesture,
                   paste_result>>

HookNext ==
    \/ \E vk \in VKeys : KeyDown(vk)
    \/ \E vk \in VKeys : KeyUp(vk)
    \/ Copy
    \/ RestoreThread
    \/ TargetPaste

HookSpec == HookInit /\ [][HookNext]_vars

(***************************************************************************)
(* The earlier variant in src/src/main.rs: its keyboard hook keeps only    *)
(* the flag SELECTION_WINDOW_VISIBLE and sends commands to the display     *)
(* actor MyApp, which takes them in MyApp::update, once per redraw.        *)
(***************************************************************************)
\* The texts the user copies to the clipboard: a Windows path, a WSL path,
\* a Unix path and a text that is no path.
MainClipTexts ==
    { <<"c", ":", "\\">>, <<"/", "m", "n", "t", "/", "c", "/">>, <<"/">>,
      <<"c">> }

\* Option<PathType>::None
NoType == "None"

\* payload: None
NoPayload == -1

\* PathType::next and PathType::previous of main.rs.
PathType_next(t) ==
    CASE t = Windows -> Unix
      [] t = Unix -> Wsl
      [] t = Wsl -> Windows

\* A previous that steps forward.
PathType_previous_as_next(t) == PathType_next(t)

PathType_previous(t) ==
    CASE t = Windows -> Wsl
      [] t = Unix -> Windows
      [] t = Wsl -> Unix

\* path_type.unwrap() as i32
as_i32(t) ==
    CASE t = Windows -> 0
      [] t = Unix -> 1
      [] t = Wsl -> 2

get_path_type(text) ==
    IF contains(text, "\\") THEN Windows
    ELSE IF starts_with(text, <<"/", "m", "n", "t", "/", "c", "/">>) THEN Wsl
    ELSE IF contains(text, "/") THEN Unix
    ELSE NoType

\* Path::new(text).components().count() for a text with an optional drive
\* prefix, an optional root and components separated by \ or /.
components_count(text) ==
    LET prefix == Len(text) >= 2 /\ IsLetter(text[1]) /\ text[2] = ":"
        rest == IF prefix THEN Drop(text, 2) ELSE text
        sep(i) == rest[i] \in {"\\", "/"}
        root == Len(rest) >= 1 /\ sep(1)
        normal == { i \in DOMAIN rest : ~sep(i) /\ (i = 1 \/ sep(i - 1)) }
    IN  (IF prefix THEN 1 ELSE 0) + (IF root THEN 1 ELSE 0)
            + Cardinality(normal)

\* convert_if_valid_path: <<>> stands for None.
convert_if_valid_path(text) ==
    IF ~contains(text, "\\") THEN <<>>
    ELSE IF components_count(text) <= 1 THEN <<>>
    ELSE replace(text, "\\", "/")

\* handle_hotkey: the clipboard and the count of injected Ctrl+V it leaves.
handle_hotkey(clip, syn) ==
    { [clip |-> clip, syn |-> syn] }              \* a read or a write fails
    \cup
    LET converted == convert_if_valid_path(clip)
    IN  IF converted # <<>>
        THEN { [clip |-> converted, syn |-> syn + 1] }
        ELSE { [clip |-> clip, syn |-> syn] }

Signal(command, payload) == [command |-> command, payload |-> payload]

\* What one call of the hook of main.rs leaves: the flag, the signals it
\* sent, the clipboard, the injected pastes and its return.
MainOutcome(visible, sends, clip, syn, ret) ==
    [visible |-> visible, sends |-> sends, clip |-> clip, syn |-> syn,
     ret |-> ret]

\* WM_KEYDOWN in keyboard_hook_proc of main.rs.
main_keydown(vk) ==
    IF vk = VK_V /\ (keys.lctrl \/ keys.rctrl)
    THEN IF SELECTION_WINDOW_VISIBLE
         THEN { MainOutcome(TRUE,
                    << Signal(IF keys.shift THEN "SelectPrevious"
                              ELSE "SelectNext", NoPayload) >>,
                    clipboard, synthetic, "suppressed") }
         ELSE { MainOutcome(FALSE, <<>>, clipboard, synthetic,
                            "suppressed") }       \* get_clipboard_text fails
              \cup
              LET path_type == get_path_type(clipboard)
              IN  IF path_type # NoType
                  THEN { MainOutcome(TRUE,
                             << Signal("Select", as_i32(path_type)),
                                Signal("ShowWindow", NoPayload) >>,
                             clipboard, synthetic, "suppressed") }
                  ELSE { MainOutcome(FALSE, <<>>, clipboard, synthetic,
                                     "suppressed") }
    ELSE { MainOutcome(SELECTION_WINDOW_VISIBLE, <<>>, clipboard, synthetic,
                       "forwarded") }

\* WM_KEYUP in keyboard_hook_proc of main.rs.
main_keyup(vk) ==
    IF (vk = VK_LCONTROL \/ vk = VK_RCONTROL) /\ SELECTION_WINDOW_VISIBLE
    THEN { MainOutcome(FALSE, << Signal("HideWindow", NoPayload) >>,
                       h.clip, h.syn, "forwarded") :
               h \in handle_hotkey(clipboard, synthetic) }
    ELSE { MainOutcome(SELECTION_WINDOW_VISIBLE, <<>>, clipboard, synthetic,
                       "forwarded") }

\* The history of the gesture: a paste key-down that shows the window
\* starts it, one that finds the window shown counts as a press.
MainGestureAfter(vk, o) ==
    IF vk = VK_V /\ (keys.lctrl \/ keys.rctrl)
    THEN IF SELECTION_WINDOW_VISIBLE
         THEN IF keys.shift
              THEN [gesture EXCEPT !.j = @ + 1]
              ELSE [gesture EXCEPT !.k = @ + 1]
         ELSE IF o.visible
         THEN [gesture EXCEPT !.text = clipboard, !.k = 0, !.j = 0]
         ELSE gesture
    ELSE gesture

\* The match on signal.command in MyApp::update.
MyApp_update(app, signal) ==
    CASE signal.command = "ShowWindow" -> [app EXCEPT !.window_open = TRUE]
      [] signal.command = "HideWindow" -> [app EXCEPT !.window_open = FALSE]
      [] signal.command = "SelectNext" ->
            [app EXCEPT !.selected_path_type = PathType_next(@)]
      [] signal.command = "SelectPrevious" ->
            [app EXCEPT !.selected_path_type = PathType_previous(@)]
      [] signal.command = "Select" ->
            CASE signal.payload = 0 -> [app EXCEPT !.selected_path_type = Windows]
              [] signal.payload = 1 -> [app EXCEPT !.selected_path_type = Unix]
              [] signal.payload = 2 -> [app EXCEPT !.selected_path_type = Wsl]
              [] OTHER -> [app EXCEPT !.panicked = TRUE]

MainInit ==
    /\ raw_path = <<>>
    /\ path_selection = None
    /\ last_op = "none"
    /\ prev_current = 0
    /\ values = <<>>
    /\ clipboard \in MainClipTexts
    /\ keys = NoKeys
    /\ gui_channel = <<>>
    /\ paste_calls = <<>>
    /\ restores = <<>>
    /\ synthetic = 0
    /\ pasted = <<>>
    /\ hook_ret = "none"
    /\ panic = NoPanic
    /\ n_events = 0
    /\ event = NoEvent
    /\ gesture = NoGesture
    /\ paste_result = "none"
    /\ MainIdle

\* One call of the hook of main.rs with outcome o.
MainHandle(o) ==
    /\ SELECTION_WINDOW_VISIBLE' = o.visible
    /\ gui_channel' = gui_channel \o o.sends
    /\ signals_sent' = signals_sent \o o.sends
    /\ clipboard' = o.clip
    /\ synthetic' = o.syn
    /\ hook_ret' = o.ret
    /\ n_events' = n_events + 1
    /\ UNCHANGED <<raw_path, path_selection, last_op, prev_current, values,
                   paste_calls, restores, pasted, panic, paste_result,
                   window_open, selected_path_type, signals_consumed>>

MainKeyDown(vk) ==
    /\ Running
    /\ n_events < MaxEvents
    /\ \E o \in main_keydown(vk) :
          /\ MainHandle(o)
          /\ gesture' = MainGestureAfter(vk, o)
    /\ keys' = KeysAfter("WM_KEYDOWN", vk)
    /\ event' = [w_param |-> "WM_KEYDOWN", vk |-> vk]

MainKeyUp(vk) ==
    /\ Running
    /\ n_events < MaxEvents
    /\ IsDown(vk)
    /\ \E o \in main_keyup(vk) : MainHandle(o)
    /\ keys' = KeysAfter("WM_KEYUP", vk)
    /\ event' = [w_param |-> "WM_KEYUP", vk |-> vk]
    /\ UNCHANGED gesture

\* The user copies another text.
MainCopy ==
    /\ Running
    /\ \E t \in MainClipTexts \ {clipboard} : clipboard' = t
    /\ gesture' = [gesture EXCEPT !.disturbed = TRUE]
    /\ UNCHANGED <<mainvars, raw_path, path_selection, last_op, prev_current,
                   values, keys, gui_channel, paste_calls, restores,
                   synthetic, pasted, hook_ret, panic, n_events, event,
                   paste_result>>

\* MyApp::update, one redraw: try_recv takes the first signal in flight,
\* if there is one.
update ==
    /\ Running
    /\ gui_channel # <<>>
    /\ LET signal == Head(gui_channel)
           app == MyApp_update([window_open |-> window_open,
                                selected_path_type |-> selected_path_type,
                                panicked |-> FALSE], signal)
       IN  /\ window_open' = app.window_open
           /\ selected_path_type' = app.selected_path_type
           /\ panic' = IF app.panicked
                       THEN [outcome |-> "aborted",
                             cause |-> "invalid_path_type"]
                       ELSE panic
           /\ signals_consumed' = Append(signals_consumed, signal)
    /\ gui_channel' = Tail(gui_channel)
    /\ UNCHANGED <<raw_path, path_selection, last_op, prev_current, values,
                   clipboard, keys, paste_calls, restores, synthetic, pasted,
                   hook_ret, n_events, event, gesture, paste_result,
                   SELECTION_WINDOW_VISIBLE, signals_sent>>

MainNext ==
    \/ \E vk \in VKeys : MainKeyDown(vk)
    \/ \E vk \in VKeys : MainKeyUp(vk)
    \/ MainCopy
    \/ update

\* ctx.request_repaint() at the end of every update keeps the redraws
\* coming.
MainSpec == MainInit /\ [][MainNext]_vars /\ WF_vars(update)

(***************************************************************************)
(* C1: a selection returned by PathSelection::new holds each format at     *)
(* most once, in the order Windows, Unix, Wsl, and exactly the formats     *)
(* whose conversion from the classified path succeeded, each with the      *)
(* converted value; right after creation current is the index of the       *)
(* classified format, which position() finds, so unwrap_or(0) never falls  *)
(* back.                                                                   *)
(***************************************************************************)
C1_OptionsAndInitialCurrent ==
    Active =>
        /\ Classified.ok
        /\ \A i, j \in DOMAIN Options :
              i < j => Rank(Options[i].type) < Rank(Options[j].type)
        /\ \A t \in PathType : (t \in OptionTypes) <=> Convert(Classified, t).ok
        /\ \A i \in DOMAIN Options :
              Options[i] = Convert(Classified, Options[i].type)
        /\ Created =>
              /\ position(Options, Classified.type) # -1
              /\ Current = position(Options, Classified.type)
              /\ Options[Current + 1].type = Classified.type

\* A created selection of two options that starts on its second option:
\* one conversion failed and was omitted, and index 0 would be wrong.
C1_Witness ==
    /\ Created
    /\ Active
    /\ Len(Options) = 2
    /\ Current = 1

(***************************************************************************)
(* C2: PathSelection::new never returns a selection with fewer than two    *)
(* options: a returned selection has 2 or 3, and a text from which only    *)
(* its own format is derivable yields None.                                *)
(***************************************************************************)
C2_AtLeastTwoOptions ==
    /\ Active => Len(Options) \in {2, 3}
    /\ (/\ last_op # "none"
        /\ Classified.ok
        /\ Cardinality({t \in PathType : Convert(Classified, t).ok}) = 1)
       => ~Active

\* new has run on a classified text with no other derivable format.
C2_Witness ==
    /\ Created
    /\ Classified.ok
    /\ \A t \in PathType : Convert(Classified, t).ok <=> t = Classified.type
    /\ ~Active

(***************************************************************************)
(* C3: in every state of an existing selection 0 <= current < len(options),*)
(* so options[current] is in bounds and the modulus is not zero.           *)
(***************************************************************************)
C3_CurrentInBounds ==
    Active =>
        /\ Len(Options) > 0
        /\ 0 <= Current
        /\ Current < Len(Options)
        /\ (Current + 1) \in DOMAIN Options

\* next has just wrapped from the last option to the first.
C3_Witness ==
    /\ Active
    /\ last_op = "next"
    /\ prev_current = Len(Options) - 1
    /\ Current = 0

(***************************************************************************)
(* C4: cycling wraps around: next sets current to (current + 1) mod n and  *)
(* previous to (current + n - 1) mod n, n calls of next return to the      *)
(* start, and next and previous undo each other.                           *)
(***************************************************************************)
RECURSIVE NextTimes(_, _)
NextTimes(sel, k) ==
    IF k = 0 THEN sel ELSE NextTimes(PathSelection_next(sel), k - 1)

C4_CyclingWraps ==
    Active =>
        LET n == Len(Options)
        IN  /\ n \in {2, 3}
            /\ last_op = "next" => Current = (prev_current + 1) % n
            /\ last_op = "previous" => Current = (prev_current + n - 1) % n
            /\ PathSelection_next(path_selection) =
                  [path_selection EXCEPT !.current = (Current + 1) % n]
            /\ PathSelection_previous(path_selection) =
                  [path_selection EXCEPT !.current = (Current + n - 1) % n]
            /\ NextTimes(path_selection, n) = path_selection
            /\ PathSelection_previous(PathSelection_next(path_selection))
                  = path_selection
            /\ PathSelection_next(PathSelection_previous(path_selection))
                  = path_selection

\* previous has just wrapped from the first of three options to the last.
C4_Witness ==
    /\ Active
    /\ Len(Options) = 3
    /\ last_op = "previous"
    /\ prev_current = 0
    /\ Current = 2

(***************************************************************************)
(* C5: from a Windows text <letter>:\<segments> with single backslashes    *)
(* and no forbidden character, new yields exactly the three options        *)
(* [the text, the text with / for \, /mnt/<lowercased letter> and the rest *)
(* with / for \] with current 0, and one next selects the Unix text.       *)
(***************************************************************************)
IsDrivePath(s) ==
    /\ Len(s) >= 3
    /\ IsLetter(s[1])
    /\ s[2] = ":"
    /\ s[3] = "\\"
    /\ \A i \in 4..Len(s) :
          /\ s[i] \notin WindowsForbidden
          /\ s[i] = "\\" => s[i - 1] # "\\"

SlashesFor(s) == [i \in DOMAIN s |-> IF s[i] = "\\" THEN "/" ELSE s[i]]

LowerOf(ch) ==
    IF \E i \in 1..26 : UpperLetters[i] = ch
    THEN LowerLetters[CHOOSE i \in 1..26 : UpperLetters[i] = ch]
    ELSE ch

ExpectedDriveOptions(s) ==
    << [ok |-> TRUE, type |-> Windows, path |-> s],
       [ok |-> TRUE, type |-> Unix, path |-> SlashesFor(s)],
       [ok |-> TRUE, type |-> Wsl,
        path |-> <<"/", "m", "n", "t", "/", LowerOf(s[1])>>
                    \o SlashesFor(SubSeq(s, 3, Len(s)))] >>

C5_DrivePathScenario ==
    (IsDrivePath(raw_path) /\ last_op # "none") =>
        /\ Active
        /\ Options = ExpectedDriveOptions(raw_path)
        /\ Created => Current = 0
        /\ (last_op = "next" /\ prev_current = 0) =>
              get_selected_path_string(path_selection) = SlashesFor(raw_path)

\* One next after creation from an upper-case drive path with a segment.
C5_Witness ==
    /\ IsDrivePath(raw_path)
    /\ Len(raw_path) >= 4
    /\ IsUpper(raw_path[1])
    /\ last_op = "next"
    /\ prev_current = 0
    /\ Current = 1

(***************************************************************************)
(* C6: every path value built by a constructor or returned Ok by one of    *)
(* the nine conversions, and every option of a selection, has a text that  *)
(* passes the validity check of its own format; a conversion whose         *)
(* rewritten text fails the target's check returns Err.                    *)
(***************************************************************************)
C6_ValuesAreValid ==
    /\ \A p \in PathsOf(raw_path) :
          /\ Valid(p.type, p.path)
          /\ \A t \in PathType :
                LET r == Convert(p, t)
                IN  /\ r.ok => /\ r.type = t
                               /\ r.path = Rewritten(p, t)
                               /\ Valid(t, r.path)
                    /\ ~Valid(t, Rewritten(p, t)) => ~r.ok
    /\ Active => \A i \in DOMAIN Options :
                    /\ Options[i].ok
                    /\ Valid(Options[i].type, Options[i].path)

\* A selection was created although the Unix rewriting of its Windows
\* path failed the Unix check and was dropped.
C6_Witness ==
    /\ Created
    /\ Active
    /\ Classified.type = Windows
    /\ ~Valid(Unix, Rewritten(Classified, Unix))
    /\ Unix \notin OptionTypes

(***************************************************************************)
(* C7: a text that contains a line break or a NUL is accepted by none of   *)
(* the three validity checks, is not classified, and yields no selection.  *)
(***************************************************************************)
C7_LineBreakOrNulRejected ==
    (Created /\ (contains(raw_path, "LF") \/ contains(raw_path, "NUL"))) =>
        /\ ~is_windows_path(raw_path)
        /\ ~is_unix_path(raw_path)
        /\ ~is_wsl_path(raw_path)
        /\ ~Classified.ok
        /\ ~Active

(***************************************************************************)
(* C8: every text that passes the WSL check is classified as Wsl, and the  *)
(* selection created from it starts on its Wsl option.                     *)
(***************************************************************************)
C8_WslHasPriority ==
    (Created /\ is_wsl_path(raw_path)) =>
        /\ Classified.ok
        /\ Classified.type = Wsl
        /\ Active
        /\ Options[Current + 1].type = Wsl

(***************************************************************************)
(* C9: a text that ends with a URL scheme prefix (http:, https:, ftp:,     *)
(* sftp:, file:) is classified as none of the formats and yields no        *)
(* selection.                                                              *)
(***************************************************************************)
C9_UrlSchemeRejected ==
    (Created /\ PROTOCOL_REGEX(raw_path)) =>
        /\ ~Classified.ok
        /\ ~Active

(***************************************************************************)
(* C10: Windows to Wsl fails for every valid Windows path without a        *)
(* leading <letter>: drive prefix, so a selection created from such a path *)
(* has no Wsl option.                                                      *)
(***************************************************************************)
HasDrivePrefix(s) == Len(s) >= 2 /\ IsLetter(s[1]) /\ s[2] = ":"

C10_DrivelessToWslFails ==
    (Created /\ is_windows_path(raw_path) /\ ~HasDrivePrefix(raw_path)) =>
        /\ ~WindowsPath_to_wsl(WindowsPath_new(raw_path)).ok
        /\ Active => Wsl \notin OptionTypes

(***************************************************************************)
(* C11: the round trip through WSL is stable: for a valid Windows path p   *)
(* with a leading drive letter whose to_wsl succeeds, to_windows of the    *)
(* result succeeds, and to_wsl of that succeeds with the text of to_wsl(p).*)
(***************************************************************************)
C11_WslRoundTripStable ==
    (/\ ChainStarts(<<Windows, Wsl>>)
     /\ values[1].r.ok
     /\ HasDrivePrefix(raw_path)
     /\ values[2].r.ok) =>
        /\ ChainStarts(<<Windows, Wsl, Windows>>) => values[3].r.ok
        /\ ChainStarts(<<Windows, Wsl, Windows, Wsl>>) =>
              /\ values[4].r.ok
              /\ values[4].r.path = values[2].r.path

\* A completed round trip whose Windows text differs from the original
\* (the drive letter came back upper-cased).
C11_Witness ==
    /\ ChainStarts(<<Windows, Wsl, Windows, Wsl>>)
    /\ HasDrivePrefix(raw_path)
    /\ values[4].r.ok
    /\ values[3].r.path # raw_path

(***************************************************************************)
(* C12: slash substitution between Windows and Unix is reversible: for a   *)
(* valid Windows path p without a drive letter whose to_unix succeeds,     *)
(* to_windows(to_unix(p)) succeeds and its text with / for \ is the text   *)
(* of to_unix(p); Unix to Windows only replaces / by \ and never           *)
(* synthesizes a drive letter.                                             *)
(***************************************************************************)
BackslashesFor(s) == [i \in DOMAIN s |-> IF s[i] = "/" THEN "\\" ELSE s[i]]

C12_SlashSubstitutionReversible ==
    /\ (/\ ChainStarts(<<Windows, Unix>>)
        /\ values[1].r.ok
        /\ ~HasDrivePrefix(raw_path)
        /\ values[2].r.ok) =>
           (ChainStarts(<<Windows, Unix, Windows>>) =>
               /\ values[3].r.ok
               /\ values[3].r.type = Windows
               /\ SlashesFor(values[3].r.path) = values[2].r.path)
    /\ (/\ ChainStarts(<<Unix, Windows>>)
        /\ values[1].r.ok
        /\ values[2].r.ok) =>
           /\ values[2].r.path = BackslashesFor(raw_path)
           /\ HasDrivePrefix(values[2].r.path) => HasDrivePrefix(raw_path)

\* Windows to Unix and back for a drive-less path that held a '/': the
\* Windows text that comes back is not the original.
C12_Witness ==
    /\ ChainStarts(<<Windows, Unix, Windows>>)
    /\ ~HasDrivePrefix(raw_path)
    /\ values[3].r.ok
    /\ values[3].r.path # raw_path

(***************************************************************************)
(* C13: Unix to Wsl never rewrites: for a valid Unix path it fails or      *)
(* returns the text unchanged, and it succeeds only when the text begins   *)
(* with /mnt/<letter> and is a valid WSL path; a Unix path without that    *)
(* anchor, such as c:/, fails.                                             *)
(***************************************************************************)
HasMntAnchor(s) ==
    /\ Len(s) >= 6
    /\ SubSeq(s, 1, 5) = <<"/", "m", "n", "t", "/">>
    /\ IsLetter(s[6])
    /\ Len(s) >= 7 => s[7] = "/"

C13_UnixToWslNeverRewrites ==
    (ChainStarts(<<Unix, Wsl>>) /\ values[1].r.ok) =>
        /\ values[2].r.ok =>
              /\ values[2].r.type = Wsl
              /\ values[2].r.path = raw_path
              /\ HasMntAnchor(raw_path)
        /\ ~HasMntAnchor(raw_path) => ~values[2].r.ok

\* Unix to Wsl was tried on a Unix path with a drive prefix and failed.
C13_Witness ==
    /\ ChainStarts(<<Unix, Wsl>>)
    /\ values[1].r.ok
    /\ HasDrivePrefix(raw_path)
    /\ ~values[2].r.ok

(***************************************************************************)
(* C14 as claimed: Wsl to Unix strips the /mnt/<letter> prefix: for every  *)
(* valid WSL path the Unix result is the remainder after /mnt/<letter>,    *)
(* an empty remainder included.                                            *)
(***************************************************************************)
C14_WslToUnixStripsPrefix ==
    (ChainStarts(<<Wsl, Unix>>) /\ values[1].r.ok) =>
        /\ values[2].r.ok
        /\ values[2].r.path = SubSeq(raw_path, 7, Len(raw_path))

(***************************************************************************)
(* C14 amended: Wsl to Unix succeeds for every valid WSL path and returns  *)
(* its text unchanged, the /mnt/<letter> prefix included.                  *)
(***************************************************************************)
C14_WslToUnixKeepsText ==
    (ChainStarts(<<Wsl, Unix>>) /\ values[1].r.ok) =>
        /\ values[2].r.ok
        /\ values[2].r.type = Unix
        /\ values[2].r.path = raw_path
        /\ HasMntAnchor(values[2].r.path)

\* Wsl to Unix on a drive root /mnt/<letter>, whose remainder is empty.
C14_Witness ==
    /\ ChainStarts(<<Wsl, Unix>>)
    /\ values[1].r.ok
    /\ Len(raw_path) = 6
    /\ values[2].r.ok

(***************************************************************************)
(* C15 as claimed: a selection created from a Unix path without a drive    *)
(* anchor that cannot become a WSL path has the candidate set {Unix} only, *)
(* so PathSelection::new returns None.                                     *)
(***************************************************************************)
UnixWithoutAnchor ==
    /\ Classified.ok
    /\ Classified.type = Unix
    /\ ~HasDrivePrefix(raw_path)
    /\ ~HasMntAnchor(raw_path)

C15_UnixWithoutAnchorYieldsNone ==
    (Created /\ UnixWithoutAnchor) =>
        /\ {t \in PathType : Convert(Classified, t).ok} = {Unix}
        /\ ~Active

(***************************************************************************)
(* C15 amended: for such a Unix path the candidate set is {Windows, Unix}  *)
(* and new returns the selection [text with \ for /, text] with current on *)
(* Unix, when no character after the last '/' is forbidden in a Windows    *)
(* path (as for /home/a/f.txt); otherwise the set is {Unix} and new        *)
(* returns None.                                                           *)
(***************************************************************************)
LastSlash(s) == CHOOSE i \in DOMAIN s :
                    s[i] = "/" /\ \A j \in (i + 1)..Len(s) : s[j] # "/"

TailIsWindowsClean(s) ==
    \A j \in (LastSlash(s) + 1)..Len(s) : s[j] \notin WindowsForbidden

C15_UnixWithoutAnchor ==
    (UnixWithoutAnchor /\ last_op # "none") =>
        /\ TailIsWindowsClean(raw_path) =>
              /\ Active
              /\ Options = << [ok |-> TRUE, type |-> Windows,
                               path |-> BackslashesFor(raw_path)],
                              [ok |-> TRUE, type |-> Unix, path |-> raw_path] >>
              /\ Created => Current = 1
        /\ ~TailIsWindowsClean(raw_path) => ~Active

\* A selection of Windows and Unix created from an anchor-less Unix path
\* of several characters.
C15_Witness ==
    /\ Created
    /\ UnixWithoutAnchor
    /\ Len(raw_path) >= 2
    /\ Active
    /\ Len(Options) = 2
    /\ Current = 1

(***************************************************************************)
(* C16: in every state of the key handler a selection is Active only while *)
(* a Control key is held down, and each Control key-up that arrives while  *)
(* Active hands the selection's current text to the paste-out and leaves   *)
(* the shared state Empty in the same handler step.                        *)
(***************************************************************************)
ControlHeld == keys.lctrl \/ keys.rctrl

ControlKeyUpWhileActive ==
    /\ path_selection.some
    /\ n_events' = n_events + 1
    /\ \/ keys.lctrl /\ ~keys'.lctrl
       \/ keys.rctrl /\ ~keys'.rctrl

C16_SelectionFollowsControl ==
    /\ [](path_selection.some => ControlHeld)
    /\ [][ControlKeyUpWhileActive =>
             /\ path_selection' = None
             /\ paste_calls' = Append(paste_calls,
                                  get_selected_path_string(path_selection))]_vars

(***************************************************************************)
(* C17: every change of the shared selection made by the key handler       *)
(* publishes exactly one message in the same step, carrying the new state  *)
(* (labels Win/Unix/WSL, selected = current, or None after dismiss), and   *)
(* nothing else is published: the last message describes the current       *)
(* state.                                                                  *)
(***************************************************************************)
LabelTable == { <<Windows, "Win">>, <<Unix, "Unix">>, <<Wsl, "WSL">> }

Describes(m, sel) ==
    /\ m.some = sel.some
    /\ m.selected = sel.current
    /\ Len(m.options) = Len(sel.options)
    /\ \A i \in 1..Len(sel.options) :
          /\ m.options[i].path = sel.options[i].path
          /\ <<sel.options[i].type, m.options[i].label>> \in LabelTable

LastMessageDescribesState ==
    IF gui_channel = <<>>
    THEN path_selection = None
    ELSE Describes(gui_channel[Len(gui_channel)], path_selection)

C17_EveryChangePublished ==
    /\ []LastMessageDescribesState
    /\ [][(path_selection' # path_selection \/ gui_channel' # gui_channel)
             => /\ Len(gui_channel') = Len(gui_channel) + 1
                /\ SubSeq(gui_channel', 1, Len(gui_channel)) = gui_channel
                /\ Describes(gui_channel'[Len(gui_channel')],
                             path_selection')]_vars

\* A selection was created, advanced, retreated and dismissed, each with
\* its message.
C17_Witness ==
    /\ Len(gui_channel) >= 4
    /\ gui_channel[1].some /\ gui_channel[1].selected = 0
    /\ gui_channel[2].some /\ gui_channel[2].selected = 1
    /\ gui_channel[3].some /\ gui_channel[3].selected = 0
    /\ ~gui_channel[4].some
    /\ path_selection = None

(***************************************************************************)
(* C18: next, previous and get_selected_path_string are invoked only while *)
(* the shared selection is Some; no unwrap of an Empty selection is        *)
(* reachable.                                                              *)
(***************************************************************************)
C18_NoUnwrapOfEmpty ==
    /\ [](panic.cause # "unwrap_none")
    /\ [][(n_events' # n_events /\ last_op' \in {"next", "previous", "take"})
             => path_selection.some]_vars

\* A Control key-up with no selection went through, and so did a take.
C18_Witness ==
    /\ paste_calls # <<>>
    /\ path_selection = None
    /\ last_op = "forward"
    /\ ~ControlHeld
    /\ panic = NoPanic

(***************************************************************************)
(* C19: no failure of an external call made while handling a key event is  *)
(* fatal: the handler returns normally and the selection lock stays usable.*)
(***************************************************************************)
C19_NoFailureIsFatal ==
    /\ hook_ret # "panic"
    /\ panic.outcome = "none"

(***************************************************************************)
(* C20: Windows to Unix replaces every backslash by '/' and leaves a drive *)
(* prefix intact; it succeeds exactly when the rewritten text is           *)
(* Unix-valid, so it fails for a path without a backslash (bare C:) and    *)
(* for one with two adjacent backslashes.                                  *)
(***************************************************************************)
UnixValidText(u) ==
    /\ \E i \in DOMAIN u : u[i] = "/"
    /\ \A i \in DOMAIN u : u[i] # "NUL" /\ u[i] # "LF"
    /\ \A i \in DOMAIN u : (i > 1 /\ u[i] = "/") => u[i - 1] # "/"

C20_WindowsToUnix ==
    (ChainStarts(<<Windows, Unix>>) /\ values[1].r.ok) =>
        LET u == SlashesFor(raw_path)
            r == values[2].r
        IN  /\ r.ok <=> UnixValidText(u)
            /\ r.ok => /\ r.type = Unix
                       /\ r.path = u
                       /\ \A i \in DOMAIN u : u[i] # "\\"
                       /\ HasDrivePrefix(raw_path) =>
                             SubSeq(r.path, 1, 2) = SubSeq(raw_path, 1, 2)
            /\ (\A i \in DOMAIN raw_path : raw_path[i] # "\\") => ~r.ok
            /\ (\E i \in 1..(Len(raw_path) - 1) :
                   raw_path[i] = "\\" /\ raw_path[i + 1] = "\\") => ~r.ok

\* Windows to Unix failed on a valid Windows path with two adjacent
\* backslashes.
C20_Witness ==
    /\ ChainStarts(<<Windows, Unix>>)
    /\ values[1].r.ok
    /\ \E i \in 1..(Len(raw_path) - 1) :
          raw_path[i] = "\\" /\ raw_path[i + 1] = "\\"
    /\ ~values[2].r.ok

(***************************************************************************)
(* C21 as claimed: Wsl to Windows rewrites the leading /mnt/<letter> to    *)
(* <UPPERCASED letter>: and every remaining / to \, and it succeeds        *)
(* exactly for the valid WSL paths whose last path component (the text     *)
(* after the last /) holds no character forbidden in a Windows path.       *)
(***************************************************************************)
WslToWindows == ChainStarts(<<Wsl, Windows>>) /\ values[1].r.ok

DriveRewritten(s) ==
    <<to_uppercase(s[6]), ":">> \o BackslashesFor(Drop(s, 6))

LastSeparator(s) ==
    CHOOSE i \in DOMAIN s :
        /\ s[i] \in {"/", "\\"}
        /\ \A j \in (i + 1)..Len(s) : s[j] \notin {"/", "\\"}

TailAfterSeparatorIsClean(s) ==
    \A j \in (LastSeparator(s) + 1)..Len(s) : s[j] \notin WindowsForbidden

PasteKeyDown ==
    /\ n_events' = n_events + 1
    /\ event' = [w_param |-> "WM_KEYDOWN", vk |-> VK_V]
    /\ ControlHeld

\* The index of the format detected for the text among the options.
DetectedIndex(text, options) ==
    CHOOSE i \in 0..(Len(options) - 1) :
        options[i + 1].type = get_initial_path(text).type

CurrentAfterPresses ==
    LET n == Len(path_selection.options)
        initial == DetectedIndex(gesture.text, path_selection.options)
    IN  (initial + gesture.k + gesture.j * (n - 1)) % n

C22_PasteKeyDownsCycle ==
    /\ []((ControlHeld /\ path_selection.some) =>
             path_selection.current = CurrentAfterPresses)
    /\ [][(PasteKeyDown /\ path_selection.some) =>
             LET n == Len(path_selection.options)
             IN  /\ path_selection'.some
                 /\ path_selection'.options = path_selection.options
                 /\ path_selection'.current =
                       IF keys.shift
                       THEN (path_selection.current + n - 1) % n
                       ELSE (path_selection.current + 1) % n]_vars

(***************************************************************************)
(* C23: between its creation and its dismissal a selection's options never *)
(* change: they are those made from the clipboard text of the creating key *)
(* down, whatever the clipboard holds later, and the text handed to the    *)
(* paste-out at dismissal is the current one of these options.             *)
(***************************************************************************)
C23_OptionsNeverChange ==
    /\ [](path_selection.some =>
             path_selection.options = PathSelection_new(gesture.text).options)
    /\ [][(path_selection.some /\ path_selection'.some) =>
             path_selection'.options = path_selection.options]_vars
    /\ [][(path_selection.some /\ ~path_selection'.some) =>
             paste_calls' =
                 Append(paste_calls,
                        path_selection.options[path_selection.current + 1].path)]_vars

\* An active selection was advanced after the clipboard content had
\* changed under it.
C23_Witness ==
    /\ path_selection.some
    /\ last_op = "next"
    /\ clipboard # gesture.text
    /\ panic = NoPanic

(***************************************************************************)
(* C24: when the clipboard read or the clipboard write inside paste_path   *)
(* fails at Control release, paste_path returns an error, no Ctrl+V is     *)
(* injected, no restore thread is spawned and the clipboard is left as it  *)
(* was, while the selection is dismissed (Empty, None published) and the   *)
(* paste-out is called once, without a retry.                              *)
(***************************************************************************)
PasteFailed ==
    /\ n_events' = n_events + 1
    /\ paste_result' \in {"read_failed", "write_failed"}

C24_FailedPasteLeavesNoTrace ==
    [][PasteFailed =>
          /\ event' \in { [w_param |-> "WM_KEYUP", vk |-> VK_LCONTROL],
                          [w_param |-> "WM_KEYUP", vk |-> VK_RCONTROL] }
          /\ synthetic' = synthetic
          /\ restores' = restores
          /\ clipboard' = clipboard
          /\ path_selection.some
          /\ path_selection' = None
          /\ gui_channel' = Append(gui_channel, NoneMessage)
          /\ Len(paste_calls') = Len(paste_calls) + 1
          /\ hook_ret' = "suppressed"]_vars

\* A Control release whose paste-out failed at the clipboard write, with
\* the text to paste different from the clipboard content.
C24_Witness ==
    /\ paste_result = "write_failed"
    /\ path_selection = None
    /\ paste_calls # <<>>
    /\ paste_calls[Len(paste_calls)] # clipboard
    /\ restores = <<>>
    /\ synthetic = 0

(***************************************************************************)
(* C25: a paste key-down (V while Control is held) is suppressed if and    *)
(* only if a selection is Active when the handler returns; when the state  *)
(* was Empty and the clipboard read fails or the text yields no selection, *)
(* the state stays Empty, nothing is published and the event is forwarded. *)
(***************************************************************************)
HandlerReturns == hook_ret' \in {"suppressed", "forwarded"}

C25_SuppressedIffActive ==
    [][(PasteKeyDown /\ HandlerReturns) =>
          /\ hook_ret' = "suppressed" <=> path_selection'.some
          /\ (~path_selection.some /\ ~PathSelection_new(clipboard).some) =>
                ~path_selection'.some
          /\ (~path_selection.some /\ ~path_selection'.some) =>
                /\ gui_channel' = gui_channel
                /\ hook_ret' = "forwarded"]_vars

\* A paste key-down on a clipboard text that is no path went on to the
\* next hook, and the state is Empty.
C25_Witness ==
    /\ event = [w_param |-> "WM_KEYDOWN", vk |-> VK_V]
    /\ ControlHeld
    /\ hook_ret = "forwarded"
    /\ path_selection = None
    /\ gesture.text = <<"c">>
    /\ clipboard = <<"c">>
    /\ gui_channel = <<>>

(***************************************************************************)
(* C26: the clipboard is restored after a paste gesture: once every        *)
(* restore thread spawned by paste_path has run, the clipboard holds the   *)
(* text it held before the gesture's first paste key-down, whatever the    *)
(* interleaving of a later gesture's key events with an earlier gesture's  *)
(* pending restore thread. Nothing but the hook and its restore threads    *)
(* has written the clipboard, and no restoring write has failed.           *)
(***************************************************************************)
C26_ClipboardRestored ==
    (/\ paste_calls # <<>>
     /\ ~path_selection.some
     /\ restores = <<>>
     /\ ~gesture.disturbed
     /\ panic = NoPanic) =>
        clipboard = gesture.text

(***************************************************************************)
(* C27: in the main.rs variant the display actor takes at most one signal  *)
(* per redraw, in the order sent, and loses none; under repeated redraws   *)
(* every sent signal is eventually consumed; once the channel is drained,  *)
(* window_open equals the hook's SELECTION_WINDOW_VISIBLE and the          *)
(* displayed type is the type detected at the creating paste advanced by   *)
(* (presses without Shift - presses with Shift) mod 3; the Select payload  *)
(* is always in 0..2, so the "Invalid path type" panic is unreachable.     *)
(***************************************************************************)
Drained == gui_channel = <<>>

TypeOrder == <<Windows, Unix, Wsl>>

Advanced(t, k, j) ==
    LET i == CHOOSE x \in 1..3 : TypeOrder[x] = t
    IN  TypeOrder[((i - 1 + k + 2 * j) % 3) + 1]

DisplayMatchesHook ==
    Drained =>
        /\ window_open = SELECTION_WINDOW_VISIBLE
        /\ signals_sent # <<>> =>
              selected_path_type =
                  Advanced(get_path_type(gesture.text), gesture.k, gesture.j)

SelectPayloadInRange ==
    /\ panic.cause # "invalid_path_type"
    /\ \A i \in DOMAIN signals_sent :
          signals_sent[i].command = "Select" =>
              signals_sent[i].payload \in 0..2

C27_DisplayFollowsSignals ==
    /\ [](signals_sent = signals_consumed \o gui_channel)
    /\ [][signals_consumed' # signals_consumed =>
             /\ gui_channel # <<>>
             /\ signals_consumed' = Append(signals_consumed, Head(gui_channel))
             /\ gui_channel' = Tail(gui_channel)]_vars
    /\ (~Drained) ~> Drained
    /\ []DisplayMatchesHook
    /\ []SelectPayloadInRange

\* The window is shown for a WSL path, the selection was advanced and
\* retreated, and the display actor has taken every signal.
C27_Witness ==
    /\ Drained
    /\ SELECTION_WINDOW_VISIBLE
    /\ window_open
    /\ get_path_type(gesture.text) = Wsl
    /\ gesture.k = 1
    /\ gesture.j = 2
    /\ selected_path_type = Unix
    /\ Len(signals_consumed) = 5

====
